---- MODULE Spec2Model ----
(***************************************************************************)
(* Options dashboard (src/openbbtest.py): one run of the script after the  *)
(* form is submitted with a ticker.  The run fetches an options chain,     *)
(* converts it to a table, normalizes it (numeric coercion, expiration     *)
(* normalization, timestamp formatting), then filters it by a selected     *)
(* expiration and aggregates open interest by strike.                      *)
(*                                                                         *)
(* A cell value is a record [k, v]: k is the kind of the Python value and  *)
(* v the number, day or instant it denotes (0 when it denotes none).       *)
(* A table row is [ix, f]: ix is the DataFrame index label and f maps the  *)
(* table's columns to cell values.                                         *)
(***************************************************************************)
EXTENDS Integers, Sequences, FiniteSets

VARIABLES pc, results, columns, options_df, underlying_price, caught,
          selected_expiration, filtered_df, oi_agg, fig_oi_agg

vars == <<pc, results, columns, options_df, underlying_price, caught,
          selected_expiration, filtered_df, oi_agg, fig_oi_agg>>

\* ---------------------------------------------------------------- bounds
MaxRows == 2

\* ---------------------------------------------------------- cell values
\* a Python int/float
Num(n) == [k |-> "num", v |-> n]
\* a string holding the decimal numeral of n, e.g. "10"
Str(n) == [k |-> "numstr", v |-> n]
\* a string that is neither a number nor a date, e.g. "N/A", "not-a-date"
Junk == [k |-> "junk", v |-> 0]
\* None / NaN / NaT
Null == [k |-> "null", v |-> 0]
\* the string 'YYYY-MM-DD' of day d
Iso(d) == [k |-> "iso", v |-> d]
\* a string naming day d (at midnight) in another format pandas parses
Alt(d) == [k |-> "alt", v |-> d]
\* the string 'YYYY-MM-DD HH:MM:SS' of midnight of day d
Fmt(d) == [k |-> "fmt", v |-> d]
\* a parsed pandas Timestamp: midnight of day d
Dt(d) == [k |-> "dt", v |-> d]
Call == [k |-> "call", v |-> 0]
Put == [k |-> "put", v |-> 0]

numeric_cols == {"strike", "open_interest", "volume", "implied_volatility",
                 "bid", "ask", "last_price", "underlying_price",
                 "delta", "gamma", "theta", "vega", "rho"}

dt_cols == {"last_trade_time", "bid_time", "ask_time"}

\* ------------------------------------------------------ pandas / Python
\* pd.to_numeric(x, errors='coerce') on one cell
to_numeric_junk0(x) ==
    CASE x.k = "num" -> x
      [] x.k = "numstr" -> Num(x.v)
      [] OTHER -> Num(0)

to_numeric(x) ==
    CASE x.k = "num" -> x
      [] x.k = "numstr" -> Num(x.v)
      [] OTHER -> Null

\* pd.to_datetime(x, errors='coerce') on one cell of a date/time column
to_datetime(x) ==
    CASE x.k \in {"iso", "alt", "fmt"} -> Dt(x.v)
      [] x.k \in {"junk", "null"} -> Null

\* Series.dt.strftime('%Y-%m-%d') on one cell: NaT gives NaN
strftime_date(t) == IF t.k = "dt" THEN Iso(t.v) ELSE Null

\* Series.dt.strftime('%Y-%m-%d %H:%M:%S') on one cell: NaT gives NaN
strftime_datetime(t) == IF t.k = "dt" THEN Fmt(t.v) ELSE Null

\* Python truthiness of a cell
Truthy(x) ==
    CASE x.k = "null" -> FALSE
      [] x.k = "num" -> x.v # 0
      [] OTHER -> TRUE

\* f"{x:,.2f}" raises ValueError unless x is a number
FormatRaises(x) == x.k # "num"

\* the subsequence of s whose elements satisfy Keep
RECURSIVE SelectRows(_, _)
SelectRows(s, keep) ==
    IF s = <<>> THEN <<>>
    ELSE IF Head(s).ix \in keep
         THEN <<Head(s)>> \o SelectRows(Tail(s), keep)
         ELSE SelectRows(Tail(s), keep)

\* options_df[col] = pd.to_numeric(options_df[col], errors='coerce') for
\* every column in cs
coerce_columns(df, cs) ==
    [i \in 1..Len(df) |->
        [ix |-> df[i].ix,
         f |-> [c \in DOMAIN df[i].f |->
                   IF c \in cs THEN to_numeric(df[i].f[c]) ELSE df[i].f[c]]]]

\* the expiration cell after line 100: parsed, then written as a date string
format_expiration(x) == strftime_date(to_datetime(x))

\* options_df['expiration'] = pd.to_datetime(...).dt.strftime('%Y-%m-%d')
format_expiration_column(df) ==
    [i \in 1..Len(df) |->
        [ix |-> df[i].ix,
         f |-> [c \in DOMAIN df[i].f |->
                   IF c = "expiration" THEN format_expiration(df[i].f[c])
                   ELSE df[i].f[c]]]]

\* df.dropna(subset=[col])
dropna_keep_all(df, col) == df

dropna(df, col) ==
    SelectRows(df, {df[i].ix : i \in {j \in 1..Len(df) : df[j].f[col].k # "null"}})

\* safe_get_first(series.dropna()) for column col
RECURSIVE safe_get_first(_, _)
safe_get_first(df, col) ==
    IF df = <<>> THEN Null
    ELSE IF Head(df).f[col].k # "null" THEN Head(df).f[col]
         ELSE safe_get_first(Tail(df), col)

\* format_datetime_col(df, col_name): the column, parsed and written as a
\* timestamp string, cell by cell.  errors='coerce' turns a failed parse into
\* NaT and strftime writes NaT as NaN; the except branch (line 34-35) needs
\* the whole-column call to raise, which no cell value drawn here causes.
format_datetime_col(df, col_name) ==
    [i \in 1..Len(df) |-> strftime_datetime(to_datetime(df[i].f[col_name]))]

\* DataFrame.empty: no rows or no columns
Empty(df, cols) == Len(df) = 0 \/ cols = {}

\* sorted(list) raises TypeError when None/NaN has to be compared with a string
SortedRaises(vals) ==
    (\E x \in vals : x.k = "null") /\ (\E x \in vals : x.k # "null")

\* sort rank of a strike cell and of an option_type cell: numbers ascending,
\* 'call' before 'put' (string order), NaN last
StrikeRank(x) ==
    CASE x.k = "num" -> <<0, x.v>>
      [] x.k = "null" -> <<1, 0>>

TypeRank(x) ==
    CASE x.k = "call" -> 0
      [] x.k = "put" -> 1
      [] x.k = "null" -> 2

\* row a sorts strictly before row b by (strike, option_type)
RowLess(a, b) ==
    LET sa == StrikeRank(a.f["strike"])
        sb == StrikeRank(b.f["strike"])
        ta == TypeRank(a.f["option_type"])
        tb == TypeRank(b.f["option_type"])
    IN \/ sa[1] < sb[1]
       \/ sa[1] = sb[1] /\ sa[2] < sb[2]
       \/ sa = sb /\ ta < tb

\* insert row r into the sorted sequence s after every row not greater than it
RECURSIVE InsertRow(_, _)
InsertRow(r, s) ==
    IF s = <<>> THEN <<r>>
    ELSE IF RowLess(r, Head(s)) THEN <<r>> \o s
         ELSE <<Head(s)>> \o InsertRow(r, Tail(s))

\* df.sort_values(by=['strike', 'option_type']): stable, ascending, NaN last
RECURSIVE sort_values_from(_, _)
sort_values_from(df, acc) ==
    IF df = <<>> THEN acc
    ELSE sort_values_from(Tail(df), InsertRow(Head(df), acc))

sort_values_unsorted(df) == df

sort_values(df) == sort_values_from(df, <<>>)

\* options_df[options_df['expiration'] == selected]
filter_expiration(df, selected) ==
    SelectRows(df, {df[i].ix : i \in {j \in 1..Len(df) :
                                         df[j].f["expiration"] = selected}})

\* the sum of column open_interest_agg over the rows of df with strike key
RECURSIVE SumAgg(_, _)
SumAgg(df, key) ==
    IF df = <<>> THEN 0
    ELSE (IF Head(df).f["strike"] = key
          THEN Head(df).f["open_interest_agg"].v ELSE 0) + SumAgg(Tail(df), key)

\* the strike keys in ascending order
RECURSIVE SortedKeys(_)
SortedKeys(keys) ==
    IF keys = {} THEN <<>>
    ELSE LET m == CHOOSE x \in keys : \A y \in keys : x.v <= y.v
         IN <<m>> \o SortedKeys(keys \ {m})

\* df.groupby('strike', as_index=False)['open_interest_agg'].sum(): one row
\* per distinct non-null strike, keys ascending
groupby_sum_per_row(df) ==
    [i \in 1..Len(df) |->
        [strike |-> df[i].f["strike"],
         open_interest_agg |-> df[i].f["open_interest_agg"]]]

groupby_sum(df) ==
    LET keys == {df[i].f["strike"] :
                    i \in {j \in 1..Len(df) : df[j].f["strike"].k = "num"}}
        sk == SortedKeys(keys)
    IN [i \in 1..Len(sk) |->
           [strike |-> sk[i], open_interest_agg |-> Num(SumAgg(df, sk[i]))]]

\* oi_agg[oi_agg['open_interest_agg'] > 0]
RECURSIVE filter_positive(_)
filter_positive(agg) ==
    IF agg = <<>> THEN <<>>
    ELSE IF Head(agg).open_interest_agg.v > 0
         THEN <<Head(agg)>> \o filter_positive(Tail(agg))
         ELSE filter_positive(Tail(agg))

\* oi_agg.sort_values('strike')
RECURSIVE InsertAgg(_, _)
InsertAgg(r, s) ==
    IF s = <<>> THEN <<r>>
    ELSE IF r.strike.v < Head(s).strike.v THEN <<r>> \o s
         ELSE <<Head(s)>> \o InsertAgg(r, Tail(s))

RECURSIVE sort_by_strike(_)
sort_by_strike(agg) ==
    IF agg = <<>> THEN <<>>
    ELSE InsertAgg(agg[Len(agg)], sort_by_strike(SubSeq(agg, 1, Len(agg) - 1)))

\* pd.to_numeric(options_df['open_interest'], errors='coerce').fillna(0)
fillna0(x) == IF x.k = "null" THEN Num(0) ELSE x

\* options_df['open_interest_agg'] = ...: the table with the new column
with_agg_inplace(df) ==
    [i \in 1..Len(df) |->
        [ix |-> df[i].ix,
         f |-> [c \in DOMAIN df[i].f \cup {"open_interest_agg"} |->
                   IF c \in {"open_interest_agg", "open_interest"}
                   THEN fillna0(to_numeric(df[i].f["open_interest"]))
                   ELSE df[i].f[c]]]]

with_agg_column(df) ==
    [i \in 1..Len(df) |->
        [ix |-> df[i].ix,
         f |-> [c \in DOMAIN df[i].f \cup {"open_interest_agg"} |->
                   IF c = "open_interest_agg"
                   THEN fillna0(to_numeric(df[i].f["open_interest"]))
                   ELSE df[i].f[c]]]]

\* ---------------------------------------------------------------- inputs
\* The provider's records: the column sets and the raw cell values drawn.
NormSchema == {"strike", "option_type", "expiration", "implied_volatility",
               "last_trade_time"}
AggSchema == {"strike", "option_type", "expiration", "open_interest"}
PriceSchema == {"strike", "option_type", "expiration", "open_interest",
                "underlying_price"}
NoTypeSchema == {"strike", "expiration", "open_interest"}
NoStrikeSchema == {"option_type", "expiration", "open_interest"}
NoExpSchema == {"strike", "option_type", "open_interest"}
NoOISchema == {"strike", "option_type", "expiration"}

Schemas == {NormSchema, AggSchema, PriceSchema, NoTypeSchema, NoStrikeSchema,
            NoExpSchema, NoOISchema, {}}

\* the raw records a provider may return for a column set
RawRows(cols) ==
    CASE cols = NormSchema ->
            {[strike |-> Num(10), option_type |-> Call, expiration |-> e,
              implied_volatility |-> iv, last_trade_time |-> t] :
                e \in {Iso(1), Alt(2), Junk, Null},
                iv \in {Num(2), Str(3), Junk},
                t \in {Alt(1), Junk}}
      [] cols = AggSchema ->
            {[strike |-> s, option_type |-> o, expiration |-> e,
              open_interest |-> oi] :
                s \in {Num(9), Str(10), Junk},
                o \in {Call, Put},
                e \in {Iso(1), Alt(2)},
                oi \in {Num(5), Num(0), Num(-5), Null}}
      [] cols = PriceSchema ->
            {[strike |-> s, option_type |-> Call, expiration |-> e,
              open_interest |-> Str(5), underlying_price |-> u] :
                s \in {Num(9), Num(10)},
                e \in {Iso(1), Alt(2), Junk},
                u \in {Num(7), Str(7), Null}}
      [] cols = NoTypeSchema ->
            {[strike |-> s, expiration |-> e, open_interest |-> oi] :
                s \in {Num(9), Str(10)}, e \in {Iso(1), Junk},
                oi \in {Num(5), Null}}
      [] cols = NoStrikeSchema ->
            {[option_type |-> o, expiration |-> e, open_interest |-> oi] :
                o \in {Call, Put}, e \in {Iso(1), Junk}, oi \in {Num(5), Null}}
      [] cols = NoExpSchema ->
            {[strike |-> s, option_type |-> o, open_interest |-> oi] :
                s \in {Num(9), Str(10)}, o \in {Call, Put},
                oi \in {Num(5), Null}}
      [] cols = NoOISchema ->
            {[strike |-> s, option_type |-> o, expiration |-> e] :
                s \in {Num(9), Str(10)}, o \in {Call, Put},
                e \in {Iso(1), Junk}}
      [] cols = {} -> {[c \in {} |-> Null]}

\* ------------------------------------------------------------------ Init
Init ==
    /\ pc = "fetch"
    /\ results = [kind |-> "none", cols |-> {}, rows |-> <<>>]
    /\ columns = {}
    /\ options_df = <<>>
    /\ underlying_price = Null
    /\ caught = "none"
    /\ selected_expiration = Null
    /\ filtered_df = <<>>
    /\ oi_agg = <<>>
    /\ fig_oi_agg = <<>>


\* -------------------------------------------------------------- actions
\* line 71: the provider call raises
FetchRaises ==
    /\ pc = "fetch"
    /\ results' = [kind |-> "raised", cols |-> {}, rows |-> <<>>]
    /\ caught' = "Exception"
    /\ pc' = "except"
    /\ UNCHANGED <<columns, options_df, underlying_price, selected_expiration,
                   filtered_df, oi_agg, fig_oi_agg>>

\* lines 71-74, 113-114: the result has no to_df or its results are empty
FetchNoResults ==
    /\ pc = "fetch"
    /\ results' = [kind |-> "absent", cols |-> {}, rows |-> <<>>]
    /\ pc' = "display"
    /\ UNCHANGED <<columns, options_df, underlying_price, caught,
                   selected_expiration, filtered_df, oi_agg, fig_oi_agg>>

\* lines 71-74: the provider returns records
FetchResults ==
    /\ pc = "fetch"
    /\ \E cols \in Schemas, n \in 1..MaxRows :
         \E rows \in [1..n -> RawRows(cols)] :
            results' = [kind |-> "table", cols |-> cols, rows |-> rows]
    /\ pc' = "to_df"
    /\ UNCHANGED <<columns, options_df, underlying_price, caught,
                   selected_expiration, filtered_df, oi_agg, fig_oi_agg>>

\* lines 75-77, 110-111: options_df = to_df(); an empty table only warns
ToDf ==
    /\ pc = "to_df"
    /\ options_df' = [i \in 1..Len(results.rows) |->
                         [ix |-> i, f |-> results.rows[i]]]
    /\ columns' = results.cols
    /\ pc' = IF Empty(options_df', columns') THEN "display" ELSE "price"
    /\ UNCHANGED <<results, underlying_price, caught, selected_expiration,
                   filtered_df, oi_agg, fig_oi_agg>>

\* lines 79-85: read the underlying price and show it with f"{...:,.2f}"
ExtractUnderlyingPrice ==
    /\ pc = "price"
    /\ IF "underlying_price" \in columns
       THEN LET up == safe_get_first(options_df, "underlying_price")
            IN /\ underlying_price' = up
               /\ IF Truthy(up) /\ FormatRaises(up)
                  THEN caught' = "ValueError" /\ pc' = "except"
                  ELSE caught' = caught /\ pc' = "numeric"
       ELSE UNCHANGED <<underlying_price, caught>> /\ pc' = "numeric"
    /\ UNCHANGED <<results, columns, options_df, selected_expiration,
                   filtered_df, oi_agg, fig_oi_agg>>

\* lines 89-96: coerce every numeric column that is present
CoerceNumeric ==
    /\ pc = "numeric"
    /\ options_df' = coerce_columns(options_df, numeric_cols \cap columns)
    /\ pc' = "expiration"
    /\ UNCHANGED <<results, columns, underlying_price, caught,
                   selected_expiration, filtered_df, oi_agg, fig_oi_agg>>

\* lines 99-103: normalize the expiration column and drop the rows that fail
NormalizeExpiration ==
    /\ pc = "expiration"
    /\ options_df' =
         IF "expiration" \in columns
         THEN dropna(format_expiration_column(options_df), "expiration")
         ELSE options_df
    /\ pc' = "timestamps"
    /\ UNCHANGED <<results, columns, underlying_price, caught,
                   selected_expiration, filtered_df, oi_agg, fig_oi_agg>>

\* lines 106-108: format the timestamp columns that are present
FormatTimestamps ==
    /\ pc = "timestamps"
    /\ options_df' =
         [i \in 1..Len(options_df) |->
            [ix |-> options_df[i].ix,
             f |-> [c \in DOMAIN options_df[i].f |->
                      IF c \in dt_cols
                      THEN format_datetime_col(options_df, c)[i]
                      ELSE options_df[i].f[c]]]]
    /\ pc' = "display"
    /\ UNCHANGED <<results, columns, underlying_price, caught,
                   selected_expiration, filtered_df, oi_agg, fig_oi_agg>>

\* lines 119-122: the except clause reports the error and the run goes on
ExceptHandler ==
    /\ pc = "except"
    /\ pc' = "display"
    /\ UNCHANGED <<results, columns, options_df, underlying_price, caught,
                   selected_expiration, filtered_df, oi_agg, fig_oi_agg>>

\* line 127
DisplayGuard == ~Empty(options_df, columns) /\ "expiration" \in columns

\* lines 127, 279-280: nothing to display
NoDisplay ==
    /\ pc = "display"
    /\ ~DisplayGuard
    /\ pc' = "done"
    /\ UNCHANGED <<results, columns, options_df, underlying_price, caught,
                   selected_expiration, filtered_df, oi_agg, fig_oi_agg>>

\* lines 130-137: the user selects one of the available expirations
SelectExpiration ==
    /\ pc = "display"
    /\ DisplayGuard
    /\ LET available_expirations ==
               {options_df[i].f["expiration"] : i \in 1..Len(options_df)}
       IN IF SortedRaises(available_expirations)
          THEN pc' = "uncaught" /\ UNCHANGED selected_expiration
          ELSE /\ \E e \in available_expirations : selected_expiration' = e
               /\ pc' = "filter"
    /\ UNCHANGED <<results, columns, options_df, underlying_price, caught,
                   filtered_df, oi_agg, fig_oi_agg>>

\* line 139: filter by the selected expiration and sort; sort_values raises
\* KeyError, outside any try, when a sort column is missing
Filter ==
    /\ pc = "filter"
    /\ IF {"strike", "option_type"} \subseteq columns
       THEN /\ filtered_df' =
                 sort_values(filter_expiration(options_df, selected_expiration))
            /\ pc' = "aggregate"
       ELSE /\ pc' = "uncaught"
            /\ UNCHANGED filtered_df
    /\ UNCHANGED <<results, columns, options_df, underlying_price, caught,
                   selected_expiration, oi_agg, fig_oi_agg>>

\* lines 248-276: total open interest by strike over the whole table
Aggregate ==
    /\ pc = "aggregate"
    /\ IF {"strike", "open_interest"} \subseteq columns
       THEN /\ options_df' = with_agg_column(options_df)
            /\ columns' = columns \cup {"open_interest_agg"}
            /\ oi_agg' = filter_positive(groupby_sum(options_df'))
            /\ fig_oi_agg' = sort_by_strike(oi_agg')
       ELSE UNCHANGED <<options_df, columns, oi_agg, fig_oi_agg>>
    /\ pc' = "done"
    /\ UNCHANGED <<results, underlying_price, caught, selected_expiration,
                   filtered_df>>

Next ==
    \/ FetchRaises
    \/ FetchNoResults
    \/ FetchResults
    \/ ToDf
    \/ ExtractUnderlyingPrice
    \/ CoerceNumeric
    \/ NormalizeExpiration
    \/ FormatTimestamps
    \/ ExceptHandler
    \/ NoDisplay
    \/ SelectExpiration
    \/ Filter
    \/ Aggregate

Spec == Init /\ [][Next]_vars


\* ------------------------------------------------------------ properties
\* the raw record that became the table row r
RawOf(r) == results.rows[r.ix]

\* the index labels of the rows of a table
Labels(df) == {df[i].ix : i \in 1..Len(df)}

\* a raw value names a date or an instant
Parseable(x) == x.k \in {"iso", "alt", "fmt"}

\* a raw value is a number or a numeral
Convertible(x) == x.k \in {"num", "numstr"}

\* the try block ran to its end on a fetched table
NoAbort == results.kind = "table" /\ caught = "none"

AfterNumeric ==
    NoAbort /\ pc \in {"expiration", "timestamps", "display", "filter",
                       "aggregate", "done", "uncaught"}

AfterExpiration ==
    NoAbort /\ pc \in {"timestamps", "display", "filter", "aggregate", "done",
                       "uncaught"}

AfterTimestamps ==
    NoAbort /\ pc \in {"display", "filter", "aggregate", "done", "uncaught"}

\* the filter ran on a table the normalizer finished
Filtered == NoAbort /\ pc \in {"aggregate", "done"} /\ selected_expiration # Null

\* the aggregator ran on a table the normalizer finished
Aggregated == NoAbort /\ pc = "done" /\ "open_interest_agg" \in columns

\* the sum of open_interest over the rows of df that satisfy the label set
RECURSIVE SumOI(_, _)
SumOI(df, labels) ==
    IF df = <<>> THEN 0
    ELSE (IF Head(df).ix \in labels /\ Head(df).f["open_interest"].k = "num"
          THEN Head(df).f["open_interest"].v ELSE 0) + SumOI(Tail(df), labels)

RECURSIVE SumTotals(_)
SumTotals(agg) ==
    IF agg = <<>> THEN 0
    ELSE Head(agg).open_interest_agg.v + SumTotals(Tail(agg))

\* the labels of the rows of df at strike key
AtStrike(df, key) == {df[i].ix : i \in {j \in 1..Len(df) : df[j].f["strike"] = key}}

C3_TimestampFailureKeepsRaw ==
    AfterTimestamps =>
      \A j \in 1..Len(options_df) :
        \A c \in dt_cols \cap results.cols :
           options_df[j].f[c] =
              IF Parseable(RawOf(options_df[j])[c])
              THEN Fmt(RawOf(options_df[j])[c].v)
              ELSE RawOf(options_df[j])[c]

\* C4 (as claimed): the open interest of all rows with a non-null open
\* interest sums to the total of the aggregate rows.
C4_StrikeAdditive ==
    Aggregated => SumOI(options_df, Labels(options_df)) = SumTotals(oi_agg)

\* C5 (as claimed): no aggregate row has total 0, and a strike appears in the
\* aggregate exactly when its summed open interest (null as 0) is nonzero.
C5_ExactlyNonzeroStrikes ==
    Aggregated =>
      /\ \A a \in 1..Len(oi_agg) : oi_agg[a].open_interest_agg.v # 0
      /\ \A i \in 1..Len(options_df) :
           LET key == options_df[i].f["strike"]
           IN key.k = "num" =>
                ((SumOI(options_df, AtStrike(options_df, key)) # 0)
                   <=> (\E a \in 1..Len(oi_agg) : oi_agg[a].strike = key))

\* C6: the aggregate is strictly ascending by strike (so no strike twice) and
\* each row's total is the open interest of every row at that strike, calls
\* and puts of all expirations together.
C6_AggregateSortedUnique ==
    Aggregated =>
      /\ \A a, b \in 1..Len(fig_oi_agg) :
           a < b => fig_oi_agg[a].strike.v < fig_oi_agg[b].strike.v
      /\ \A a \in 1..Len(fig_oi_agg) :
           /\ fig_oi_agg[a].strike.k = "num"
           /\ fig_oi_agg[a].open_interest_agg.v =
                SumOI(options_df, AtStrike(options_df, fig_oi_agg[a].strike))

C6_Witness ==
    /\ Aggregated
    /\ Len(options_df) = 2
    /\ options_df[1].f["option_type"] = Put
    /\ options_df[2].f["option_type"] = Call
    /\ options_df[1].f["expiration"] # options_df[2].f["expiration"]
    /\ fig_oi_agg = <<[strike |-> Num(10), open_interest_agg |-> Num(10)]>>

\* rows a, b in display order: strike ascending with null strikes last, and
\* call before put at equal strike
InOrder(a, b) ==
    LET sa == a.f["strike"]
        sb == b.f["strike"]
    IN \/ sa.k = "num" /\ sb.k = "num" /\ sa.v < sb.v
       \/ sa.k = "num" /\ sb.k = "null"
       \/ /\ sa = sb
          /\ \/ a.f["option_type"] = b.f["option_type"]
             \/ a.f["option_type"] = Call /\ b.f["option_type"] = Put

\* C7: the filtered table holds exactly the rows of the normalized table
\* whose expiration is the selected one, each once and unchanged, ordered by
\* (strike, option_type) with call before put.
C7_FilterExactAndOrdered ==
    Filtered =>
      /\ Labels(filtered_df) =
           {options_df[i].ix : i \in {j \in 1..Len(options_df) :
               options_df[j].f["expiration"] = selected_expiration}}
      /\ Cardinality(Labels(filtered_df)) = Len(filtered_df)
      /\ \A j \in 1..Len(filtered_df) :
           \E i \in 1..Len(options_df) :
              /\ options_df[i].ix = filtered_df[j].ix
              /\ \A c \in DOMAIN filtered_df[j].f :
                    options_df[i].f[c] = filtered_df[j].f[c]
      /\ \A a, b \in 1..Len(filtered_df) :
           a < b => InOrder(filtered_df[a], filtered_df[b])

C7_Witness ==
    /\ Filtered
    /\ Len(filtered_df) = 2
    /\ filtered_df[1].ix = 2
    /\ filtered_df[2].ix = 1
    /\ filtered_df[1].f["strike"] = filtered_df[2].f["strike"]
    /\ filtered_df[1].f["option_type"] = Call
    /\ filtered_df[2].f["option_type"] = Put

\* C8 (as claimed): no run ends in an uncaught failure, and a failed or
\* absent fetch leaves the table and the aggregate empty.
C8_NeverUncaught ==
    /\ pc # "uncaught"
    /\ results.kind \in {"raised", "absent"} =>
         options_df = <<>> /\ oi_agg = <<>> /\ fig_oi_agg = <<>>

\* C9: the aggregator changes no declared field of any record: the rows, their
\* labels and every column the table had stay as they were, and the filtered
\* table is untouched.
C9_AggregatorKeepsRecords ==
    [][pc = "aggregate" =>
         /\ Len(options_df') = Len(options_df)
         /\ \A i \in 1..Len(options_df) :
              /\ options_df'[i].ix = options_df[i].ix
              /\ \A c \in columns : options_df'[i].f[c] = options_df[i].f[c]
         /\ columns \subseteq columns'
         /\ filtered_df' = filtered_df]_vars

C9_Witness ==
    /\ pc = "done"
    /\ "open_interest_agg" \in columns
    /\ \E i \in 1..Len(options_df) :
         /\ options_df[i].f["open_interest"] = Null
         /\ options_df[i].f["open_interest_agg"] = Num(0)

\* C10 (as claimed): whenever the filter or the aggregator is about to work on
\* the table, every expiration in it is a 'YYYY-MM-DD' string and every
\* numeric column holds numbers or nulls.
C10_NormalizedBeforeDisplay ==
    pc \in {"filter", "aggregate"} =>
      \A i \in 1..Len(options_df) :
         /\ options_df[i].f["expiration"].k = "iso"
         /\ \A c \in numeric_cols \cap columns :
               options_df[i].f[c].k \in {"num", "null"}

====
